---- MODULE Spec2Model ----
(***************************************************************************)
(* A model of src/main.py: the on-demand tile pipeline of get_tile and     *)
(* cached_generate_tile behind the aiocache TTL decorator, and the         *)
(* progress channel (websocket_endpoint, notify_progress) with the         *)
(* background job run_computation, the catalog search of search_images,    *)
(* and the colorizer apply_colormap as a function of its raster.           *)
(*                                                                         *)
(* The handlers are coroutines on one event loop: an action is the code a  *)
(* coroutine runs from one suspension point (an await that yields) to the  *)
(* next.  The catalog service, the raster decoder, the compute engine and  *)
(* the websocket clients are the environment: their answers are chosen     *)
(* with \E.                                                                *)
(***************************************************************************)
EXTENDS Integers, Sequences, FiniteSets, TLC

VARIABLES
    clock,        \* event-loop time, in ticks of TickSeconds
    cache,        \* aiocache SimpleMemoryCache: key -> entry or NoEntry
    req,          \* the tile requests, one record per request id
    evaluated,    \* the formulas that eval() has compiled and run (history)
    connections,  \* the module-level list `connections`
    ws,           \* the state of each websocket
    job,          \* the background jobs, one record per job id
    delivered,    \* the texts sent to each websocket, by broadcast (history)
    search,       \* the /search requests, one record per request id
    raster,       \* apply_colormap: the argument `result`
    normalized,   \* apply_colormap: `result_normalized`
    image         \* apply_colormap: the colour of each pixel of `result_image`

vars == <<clock, cache, req, evaluated, connections, ws, job, delivered,
          search, raster, normalized, image>>
tileVars == <<clock, cache, req, evaluated>>
progressVars == <<connections, ws, job, delivered>>
searchVars == <<search>>
rasterVars == <<raster, normalized, image>>

\* ------------------------------------------------------------------ bounds
NReq == 2
MaxClock == 2
MaxInFlight == 2
TicksPerTTL == 2
NConn == 2
NJobs == 2
NSearch == 3
MaxPixels == 3
MaxValue == 2

\* --------------------------------------------------------- program constants
TTL == 3600
MinZoom == 10
MaxZoom == 16
DefaultCloudCover == 30
LutSize == 256

TickSeconds == TTL \div TicksPerTTL

None == "None"
Range(s) == {s[i] : i \in DOMAIN s}

\* ----------------------------------------------------------------- formulas
\* A formula is the sequence of its tokens.
DefaultFormula == <<"band1">>
NDVI == <<"(", "band2", "-", "band1", ")", "/", "(", "band2", "+", "band1", ")">>
Doubled == <<"band1", "*", "2">>
Injected == <<"__import__", "(", "'os'", ")", ".", "system", "(", "'id'", ")">>
Dangling == <<"band1", "+">>

Numerals == {"0", "1", "2"}
Operands == {"band1", "band2"} \cup Numerals

\* The restricted grammar of the specification, by recursive descent:
\*   expr ::= term (("+" | "-") term)*      term ::= factor (("*" | "/") factor)*
\*   factor ::= numeral | band1 | band2 | "(" expr ")"
\* Each parser returns the position after what it read, 0 when it fails.
RECURSIVE ParseExpr(_, _), ExprRest(_, _), ParseTerm(_, _), TermRest(_, _), ParseFactor(_, _)
ParseFactor(t, i) ==
    IF i > Len(t) THEN 0
    ELSE IF t[i] \in Operands THEN i + 1
    ELSE IF t[i] = "("
         THEN LET j == ParseExpr(t, i + 1)
              IN  IF j # 0 /\ j <= Len(t) /\ t[j] = ")" THEN j + 1 ELSE 0
         ELSE 0
TermRest(t, j) ==
    IF j <= Len(t) /\ t[j] \in {"*", "/"}
    THEN LET k == ParseFactor(t, j + 1) IN IF k = 0 THEN 0 ELSE TermRest(t, k)
    ELSE j
ParseTerm(t, i) ==
    LET j == ParseFactor(t, i) IN IF j = 0 THEN 0 ELSE TermRest(t, j)
ExprRest(t, j) ==
    IF j <= Len(t) /\ t[j] \in {"+", "-"}
    THEN LET k == ParseTerm(t, j + 1) IN IF k = 0 THEN 0 ELSE ExprRest(t, k)
    ELSE j
ParseExpr(t, i) ==
    LET j == ParseTerm(t, i) IN IF j = 0 THEN 0 ELSE ExprRest(t, j)

InGrammar(t) == ParseExpr(t, 1) = Len(t) + 1

\* What Python's eval accepts: every formula of the restricted grammar is a
\* Python expression, and so is the call chain of Injected.
PythonExpression(t) == InGrammar(t) \/ t = Injected

\* ------------------------------------------------------------ tile requests
\* The arguments of GET /tile/{z}/{x}/{y} as FastAPI hands them to get_tile.
Args(x, z, b1, b2, f) ==
    [x |-> x, y |-> 5, z |-> z, start_date |-> None, end_date |-> None,
     cloud_cover |-> DefaultCloudCover, band1 |-> b1, band2 |-> b2, formula |-> f]

TileRequests ==
    { Args(1, 12, "visual", None, DefaultFormula),
      Args(1, 12, "red", "nir", NDVI),
      Args(1, MinZoom - 1, "visual", None, DefaultFormula),
      Args(1, MaxZoom + 1, "red", "nir", NDVI),
      Args(1, MaxZoom, "red", None, Doubled),
      Args(1, MinZoom, "red", None, NDVI),
      Args(1, 12, "swir99", None, DefaultFormula),
      Args(1, 12, "red", None, Injected),
      Args(1, 12, "red", "nir", Dangling) }

\* One request and the nine that differ from it in one argument each.
KeyBase == Args(1, 12, "red", None, Doubled)
KeyRequests ==
    { KeyBase,
      [KeyBase EXCEPT !.x = 2], [KeyBase EXCEPT !.y = 6], [KeyBase EXCEPT !.z = 13],
      [KeyBase EXCEPT !.start_date = "2024-01-01"],
      [KeyBase EXCEPT !.end_date = "2024-06-30"],
      [KeyBase EXCEPT !.cloud_cover = 10],
      [KeyBase EXCEPT !.band1 = "nir"], [KeyBase EXCEPT !.band2 = "nir"],
      [KeyBase EXCEPT !.formula = DefaultFormula] }

\* The dates get_tile substitutes for a missing start_date and end_date; the
\* model's horizon is shorter than a day, so they do not change.
DefaultStart == "today-360d"
DefaultEnd == "today"

Scenes == {"S1", "S2"}
Bands == {"visual", "red", "nir"}
Channels(band) == IF band = "visual" THEN 3 ELSE 1

Requests == 1..NReq
\* The request ids of RaceSpec, which has one request more.
Slots == 1..(NReq + 1)
NoArgs == [none |-> TRUE]
NoEntry == [none |-> TRUE]
NoTile == [none |-> TRUE]
NoBytes == [mode |-> "none"]
NoResponse ==
    [status |-> 0, kind |-> "none", error |-> "", bytes |-> NoBytes, feature |-> None]
IdleReq ==
    [pc |-> "idle", asked |-> NoArgs, args |-> NoArgs, answer |-> None, feature |-> None, tiles |-> <<>>,
     pending |-> {}, order |-> <<>>, catalogCalls |-> 0, fetchCalls |-> 0,
     evalCalls |-> 0, servedFor |-> NoArgs, hit |-> FALSE,
     stored |-> FALSE, entryAt |-> 0, at |-> 0, startSeq |-> 0, doneSeq |-> 0,
     response |-> NoResponse]

\* JSONResponse(content={"error": detail}, status_code=status)
JsonError(status, detail) ==
    [status |-> status, kind |-> "json", error |-> detail, bytes |-> NoBytes,
     feature |-> None]
\* Response(content=image_bytes, media_type="image/png", headers=...)
PngResponse(bytes, feature) ==
    [status |-> 200, kind |-> "png", error |-> "", bytes |-> bytes, feature |-> feature]
\* An exception that get_tile does not catch: it leaves the handler, and the
\* server answers it with its plain-text 500.
RawException(exc) ==
    [status |-> 500, kind |-> "raw", error |-> exc, bytes |-> NoBytes, feature |-> None]

\* raise HTTPException(status_code=..., detail=...)
HTTPException(status, detail) == [status_code |-> status, detail |-> detail]
\* get_tile: except HTTPException as e: JSONResponse({"error": e.detail}, e.status_code)
Handled(e) == JsonError(e.status_code, e.detail)

\* cached_generate_tile: if response.status_code != 200: raise ...
CatalogStatusError == HTTPException(404, "Error searching STAC API")
\* Mutant of NoFeaturesError: the empty result reported as a server error.
NoFeaturesErrorAs500 == HTTPException(500, "No images found for the given parameters")
\* cached_generate_tile: if not results["features"]: raise ...
NoFeaturesError == HTTPException(404, "No images found for the given parameters")
\* cached_generate_tile: except Exception as e: raise HTTPException(500, str(e))
FetchError == HTTPException(500, "decode error")

\* Mutant of ZoomRejected: the range of the error message, 8 to 17.
ZoomRejectedAsMessage(z) == z < MinZoom - 2 \/ z > MaxZoom + 1

\* get_tile: if z < 10 or z > 16
ZoomRejected(z) == z < MinZoom \/ z > MaxZoom

\* get_tile: the defaults for start_date and end_date
WithDefaults(a) ==
    [a EXCEPT !.start_date = IF a.start_date = None THEN DefaultStart ELSE @,
              !.end_date = IF a.end_date = None THEN DefaultEnd ELSE @]

\* aiocache's key of a call: the positional arguments, in order.
\* Mutant of CacheKey: the key without cloud_cover.
CacheKeyWithoutCloudCover(a) ==
    <<a.x, a.y, a.z, a.start_date, a.end_date, a.band1, a.band2, a.formula>>

CacheKey(a) ==
    <<a.x, a.y, a.z, a.start_date, a.end_date, a.cloud_cover, a.band1, a.band2,
      a.formula>>
Keys == {CacheKey(WithDefaults(a)) : a \in TileRequests \cup KeyRequests}

\* The logical time of a request's start or end: the events so far, plus one.
EventNo == Cardinality({r \in Slots : req[r].pc # "idle"})
           + Cardinality({r \in Slots : req[r].pc = "done"}) + 1

\* The requests the server is working on.
InFlight == {r \in Slots : req[r].pc \notin {"idle", "done"}}

Finish(r, rec, resp) ==
    [rec EXCEPT !.pc = "done", !.response = resp, !.pending = {},
                 !.doneSeq = IF rec.pc = "idle" THEN EventNo + 1 ELSE EventNo]

\* @cached(ttl=3600): the entry of the key, when there is one.
CacheGet(key) == cache[key]

\* Mutant of OnMiss: a call waits for the call of its key that is under way.
OnMissSingleFlight(r, rec, args) ==
    IF \E q \in InFlight : q # r /\ req[q].args = args
    THEN [rec EXCEPT !.pc = "wait", !.args = args]
    ELSE [rec EXCEPT !.pc = "search", !.args = args, !.catalogCalls = @ + 1]

\* The decorator on a miss: it awaits cached_generate_tile, whatever other
\* calls are under way; the function runs to its POST to the catalog.
OnMiss(r, rec, args) ==
    [rec EXCEPT !.pc = "search", !.args = args, !.catalogCalls = @ + 1]

\* GET /tile/{z}/{x}/{y}: get_tile up to its first suspension: the checks of
\* the arguments, the defaults, and the decorator's cache lookup; on a miss
\* cached_generate_tile runs up to its POST to the catalog.
GetTile(r, a) ==
    /\ req[r].pc = "idle"
    /\ \A q \in Slots : q < r => req[q].pc # "idle"
    /\ Cardinality(InFlight) < MaxInFlight
    /\ LET rec == [req[r] EXCEPT !.startSeq = EventNo, !.at = clock, !.asked = a]
           args == WithDefaults(a)
           entry == CacheGet(CacheKey(args))
       IN  req' = [req EXCEPT ![r] =
             IF ZoomRejected(a.z)
             THEN Finish(r, rec, JsonError(400, "Zoom level must be between 8 and 17"))
             ELSE IF a.band1 = None
             THEN Finish(r, rec, JsonError(400, "Band1 is required"))
             ELSE IF entry # NoEntry
             THEN Finish(r, [rec EXCEPT !.args = args, !.hit = TRUE,
                                        !.servedFor = entry.args,
                                        !.entryAt = entry.inserted],
                         PngResponse(entry.bytes, entry.feature))
             ELSE OnMiss(r, rec, args)]
    /\ UNCHANGED <<clock, cache, evaluated, progressVars, searchVars, rasterVars>>

\* feature["assets"]: every scene of the collection has these assets.
Assets(scene) == Bands

\* The answers of the catalog service to the POST of cached_generate_tile.
CatalogAnswers == {"transport error", "non-200", "no features"} \cup Scenes

\* cached_generate_tile, from the catalog's answer to the gather of the
\* fetch_tile calls (lines 254-272).
CatalogAnswer(r, answer) ==
    /\ req[r].pc = "search"
    /\ LET rec == [req[r] EXCEPT !.answer = answer]
           a == rec.args
           two == a.band2 # None /\ a.band2 # ""
       IN  req' = [req EXCEPT ![r] =
             IF answer = "transport error"
             THEN Finish(r, rec, RawException("httpx.TransportError"))
             ELSE IF answer = "non-200"
             THEN Finish(r, rec, Handled(CatalogStatusError))
             ELSE IF answer = "no features"
             THEN Finish(r, rec, Handled(NoFeaturesError))
             ELSE IF a.band1 \notin Assets(answer) \/ (two /\ a.band2 \notin Assets(answer))
             THEN Finish(r, rec, RawException("KeyError"))
             ELSE [rec EXCEPT !.pc = "fetch", !.feature = answer,
                              !.fetchCalls = IF two THEN 2 ELSE 1,
                              !.pending = IF two THEN {1, 2} ELSE {1},
                              !.tiles = IF two THEN <<NoTile, NoTile>> ELSE <<NoTile>>]]
    /\ UNCHANGED <<clock, cache, evaluated, progressVars, searchVars, rasterVars>>

\* fetch_tile: COGReader(url).tile(x, y, z) of one band of the scene
Tile(scene, band) == [scene |-> scene, band |-> band, channels |-> Channels(band)]

\* eval(formula) with band1 bound to an array and band2 to an array or None
EvalOutcome(f, band2Bound) ==
    IF ~PythonExpression(f) THEN "SyntaxError"
    ELSE IF ~InGrammar(f) THEN "code executed"
    ELSE IF "band2" \in Range(f) /\ ~band2Bound THEN "TypeError"
    ELSE "ok"

\* Mutant of ReachesEval: the single band is never evaluated.
ReachesEvalTwoBandsOnly(a, tiles) == Len(tiles) = 2

\* cached_generate_tile lines 278-300: does the request reach eval?
ReachesEval(a, tiles) == Len(tiles) = 2 \/ tiles[1].channels = 1

\* cached_generate_tile lines 278-306: the image bytes, or the exception
Pipeline(a, feature, tiles) ==
    IF ReachesEval(a, tiles)
    THEN LET out == EvalOutcome(a.formula, Len(tiles) = 2)
         IN  IF out = "ok"
             THEN [ok |-> TRUE, exc |-> "",
                   bytes |-> [mode |-> "colormap", scene |-> feature,
                              band1 |-> tiles[1].band,
                              band2 |-> IF Len(tiles) = 2 THEN tiles[2].band ELSE None,
                              formula |-> a.formula, x |-> a.x, y |-> a.y, z |-> a.z]]
             \* The value of the injected call is no array: the slicing in
             \* apply_colormap raises IndexError after the code has run.
             ELSE [ok |-> FALSE, bytes |-> NoBytes,
                   exc |-> IF out = "code executed" THEN "IndexError" ELSE out]
    ELSE [ok |-> TRUE, exc |-> "",
          bytes |-> [mode |-> "passthrough", scene |-> feature, band1 |-> tiles[1].band,
                     band2 |-> None, formula |-> <<>>, x |-> a.x, y |-> a.y, z |-> a.z]]

\* The decorator's set_in_cache of a result: the entry and its insertion
\* time.  `args` is history: the arguments of the call that computed it.
CachePut(a, bytes, feature) ==
    [cache EXCEPT ![CacheKey(a)] =
        [bytes |-> bytes, feature |-> feature, inserted |-> clock, args |-> a]]

\* Mutant of SetInCache: the outcome is stored, an exception too.
SetInCacheAlways(a, out, feature) == CachePut(a, out.bytes, feature)

\* The decorator after `result = await f(*args)`: set_in_cache runs when f
\* has returned; an exception of f leaves the decorator before it.
SetInCache(a, out, feature) ==
    IF out.ok THEN CachePut(a, out.bytes, feature) ELSE cache

\* Mutant of GatherSlot: the results in the order of completion.
GatherSlotByCompletion(i, completed) == completed + 1

\* asyncio.gather: the result of the i-th awaitable is the i-th element of
\* the list, whichever of them completes first.
GatherSlot(i, completed) == i

\* One fetch_tile of the gather ends, with a tile or with an exception; after
\* the last one cached_generate_tile runs to its end, the decorator stores
\* the result and get_tile answers (lines 272-306, 348-358).
FetchDone(r, i, ok) ==
    /\ req[r].pc = "fetch"
    /\ i \in req[r].pending
    /\ LET rec == [req[r] EXCEPT !.order = Append(@, i)]
           a == rec.args
           band == IF i = 1 THEN a.band1 ELSE a.band2
           tiles == [rec.tiles EXCEPT ![GatherSlot(i, Len(req[r].order))] =
                        Tile(rec.feature, band)]
           left == rec.pending \ {i}
           out == Pipeline(a, rec.feature, tiles)
           calls == IF ReachesEval(a, tiles) THEN 1 ELSE 0
       IN  IF ~ok
           THEN /\ req' = [req EXCEPT ![r] = Finish(r, rec, Handled(FetchError))]
                /\ cache' = SetInCache(a, [ok |-> FALSE, exc |-> "fetch_tile",
                                           bytes |-> NoBytes], rec.feature)
                /\ UNCHANGED evaluated
           ELSE IF left # {}
           THEN /\ req' = [req EXCEPT ![r] = [rec EXCEPT !.tiles = tiles, !.pending = left]]
                /\ UNCHANGED <<cache, evaluated>>
           ELSE /\ evaluated' = IF /\ ReachesEval(a, tiles)
                                   /\ EvalOutcome(a.formula, Len(tiles) = 2) # "SyntaxError"
                                THEN evaluated \cup {a.formula}
                                ELSE evaluated
                /\ cache' = SetInCache(a, out, rec.feature)
                /\ req' = [req EXCEPT ![r] =
                             IF out.ok
                             THEN Finish(r, [rec EXCEPT !.tiles = tiles, !.stored = TRUE,
                                                        !.evalCalls = calls,
                                                        !.servedFor = a,
                                                        !.entryAt = clock],
                                         PngResponse(out.bytes, rec.feature))
                             ELSE Finish(r, [rec EXCEPT !.tiles = tiles,
                                                        !.evalCalls = calls],
                                         RawException(out.exc))]
    /\ UNCHANGED <<clock, progressVars, searchVars, rasterVars>>

\* Mutant of Expired: the entry outlives its TTL by a tick.
ExpiredLate(entry, now) == (now - entry.inserted) * TickSeconds > TTL

\* Has the entry's call_later(ttl, delete) come due at time `now`?
Expired(entry, now) == (now - entry.inserted) * TickSeconds >= TTL

\* Time passes; the event loop runs the delete timers that have come due.
Tick ==
    /\ clock < MaxClock
    /\ clock' = clock + 1
    /\ cache' = [k \in Keys |->
                   IF cache[k] # NoEntry /\ Expired(cache[k], clock + 1)
                   THEN NoEntry ELSE cache[k]]
    /\ UNCHANGED <<req, evaluated, progressVars, searchVars, rasterVars>>

TileInit ==
    /\ clock = 0
    /\ cache = [k \in Keys |-> NoEntry]
    /\ req = [r \in Slots |-> IdleReq]
    /\ evaluated = {}

\* --------------------------------------------------------- progress channel
Conns == 1..NConn
Jobs == 1..NJobs
Dirs == {"output", "results"}
Phases == {"starting", "completing"}
Broadcasts == Jobs \X Phases

IdleJob ==
    [pc |-> "idle", dir |-> None, idx |-> 0, log |-> <<>>, failedAt |-> 0,
     present |-> {}, stable |-> [p \in Phases |-> {}],
     ended |-> [p \in Phases |-> "no"]]

\* The text of a job's message: f"Processing completed. Results saved in {output_dir}"
Message(phase, dir) ==
    IF phase = "starting" THEN <<"Starting processing...">>
    ELSE <<"Processing completed. Results saved in", dir>>

ProgressInit ==
    /\ connections = <<>>
    /\ ws = [c \in Conns |-> "new"]
    /\ job = [j \in Jobs |-> IdleJob]
    /\ delivered = [c \in Conns |-> [b \in Broadcasts |-> <<>>]]

Broadcasting(j) == job[j].pc \in Phases

\* Mutant of Remove: the first element of the list goes, whichever it is.
RemoveHead(list, x) == Tail(list)

\* list.remove(x): the list without its first x
Remove(list, x) ==
    LET i == CHOOSE k \in 1..Len(list) : list[k] = x /\ \A m \in 1..(k - 1) : list[m] # x
    IN  SubSeq(list, 1, i - 1) \o SubSeq(list, i + 1, Len(list))

\* websocket_endpoint: await websocket.accept(); connections.append(websocket)
Connect(c) ==
    /\ ws[c] = "new"
    /\ \A d \in Conns : d < c => ws[d] # "new"
    /\ ws' = [ws EXCEPT ![c] = "open"]
    /\ connections' = Append(connections, c)
    /\ UNCHANGED <<job, delivered, tileVars, searchVars, rasterVars>>

\* The client goes away; the handler, suspended in receive_text, has not run yet.
ClientClose(c) ==
    /\ ws[c] = "open"
    /\ ws' = [ws EXCEPT ![c] = "closed"]
    /\ UNCHANGED <<connections, job, delivered, tileVars, searchVars, rasterVars>>

\* websocket_endpoint: except WebSocketDisconnect: connections.remove(websocket)
Disconnected(c) ==
    /\ ws[c] = "closed"
    /\ ws' = [ws EXCEPT ![c] = "removed"]
    /\ connections' = Remove(connections, c)
    /\ job' = [j \in Jobs |->
                 IF Broadcasting(j) THEN [job[j] EXCEPT !.present = @ \ {c}] ELSE job[j]]
    /\ UNCHANGED <<delivered, tileVars, searchVars, rasterVars>>

\* POST /compute: background_tasks.add_task(run_computation, ...) and the
\* response; the server runs the task after it has sent the response.
ComputeAoi(j, dir) ==
    /\ job[j].pc = "idle"
    /\ \A k \in Jobs : k < j => job[k].pc # "idle"
    /\ job' = [job EXCEPT ![j] = [@ EXCEPT !.pc = "queued", !.dir = dir,
                                           !.log = <<"response">>]]
    /\ UNCHANGED <<connections, ws, delivered, tileVars, searchVars, rasterVars>>

\* The state of a job and of the deliveries while a step of the job runs.
World(j) == [job |-> job[j], delivered |-> delivered]

EndBroadcast(jrec, phase, how) ==
    [jrec EXCEPT !.stable[phase] = jrec.present, !.ended[phase] = how]

\* notify_progress: await connection.send_text(message) of the connection at
\* position idx + 1 of the list; the send to a closed websocket raises, and
\* the exception leaves notify_progress and run_computation.
Send(w, j, phase, idx) ==
    LET c == connections[idx + 1]
    IN  IF ws[c] = "open"
        THEN [job |-> [w.job EXCEPT !.pc = phase, !.idx = idx + 1],
              delivered |-> [w.delivered EXCEPT ![c][<<j, phase>>] =
                                                  Append(@, Message(phase, w.job.dir))]]
        ELSE [job |-> [EndBroadcast(w.job, phase, "failed") EXCEPT
                         !.pc = "crashed", !.failedAt = c,
                         !.log = Append(@, "send failed")],
              delivered |-> w.delivered]

\* notify_progress(f"Processing completed. Results saved in {output_dir}"):
\* the loop `for connection in connections` at position idx
Completing(w, j, idx) ==
    IF idx < Len(connections)
    THEN Send(w, j, "completing", idx)
    ELSE [w EXCEPT !.job = [EndBroadcast(w.job, "completing", "ok") EXCEPT !.pc = "done"]]

\* Mutant of AfterStarting: the completed message is broadcast whether or not
\* compute_engine returned (as in a try/finally).
AfterStartingFinally(w, j, computeOk) ==
    LET called == [w.job EXCEPT !.log = Append(@, "compute called")]
        outcome == IF computeOk THEN "compute returned" ELSE "compute raised"
    IN  Completing([w EXCEPT !.job =
                      [called EXCEPT !.log = @ \o <<outcome, "completed">>,
                                     !.present = Range(connections), !.idx = 0]],
                   j, 0)

\* run_computation after notify_progress("Starting processing..."): the call of
\* compute_engine, which returns or raises, and then the second broadcast.
AfterStarting(w, j, computeOk) ==
    LET called == [w.job EXCEPT !.log = Append(@, "compute called")]
    IN  IF computeOk
        THEN Completing([w EXCEPT !.job =
                           [called EXCEPT !.log = @ \o <<"compute returned", "completed">>,
                                          !.present = Range(connections), !.idx = 0]],
                        j, 0)
        ELSE [w EXCEPT !.job = [called EXCEPT !.pc = "crashed",
                                              !.log = Append(@, "compute raised")]]

\* notify_progress("Starting processing..."): the loop at position idx
Starting(w, j, idx, computeOk) ==
    IF idx < Len(connections)
    THEN Send(w, j, "starting", idx)
    ELSE AfterStarting([w EXCEPT !.job = EndBroadcast(w.job, "starting", "ok")],
                       j, computeOk)

\* The background task starts run_computation, which runs to its first
\* suspension.
RunComputation(j, computeOk) ==
    /\ job[j].pc = "queued"
    /\ LET w == [World(j) EXCEPT !.job.log = Append(@, "starting"),
                                 !.job.present = Range(connections)]
           n == Starting(w, j, 0, computeOk)
       IN  /\ job' = [job EXCEPT ![j] = n.job]
           /\ delivered' = n.delivered
    /\ UNCHANGED <<connections, ws, tileVars, searchVars, rasterVars>>

\* A send_text has completed: notify_progress goes on with the next
\* connection of the list, and run_computation runs to its next suspension.
SendDone(j, computeOk) ==
    /\ Broadcasting(j)
    /\ LET n == IF job[j].pc = "starting"
                THEN Starting(World(j), j, job[j].idx, computeOk)
                ELSE Completing(World(j), j, job[j].idx)
       IN  /\ job' = [job EXCEPT ![j] = n.job]
           /\ delivered' = n.delivered
    /\ UNCHANGED <<connections, ws, tileVars, searchVars, rasterVars>>

\* ------------------------------------------------------------ search_images
Searches == 1..NSearch
NoAnswer == [none |-> TRUE]
NoSearchResponse == [status |-> 0, kind |-> "none", content |-> NoAnswer]
IdleSearch ==
    [pc |-> "idle", bbox |-> "", answer |-> NoAnswer, response |-> NoSearchResponse]

\* The bbox query strings: one that splits into four floats, one that does not.
BBoxes == {"10,20,11,21", "10,20,11"}
WellFormed(bbox) == bbox = "10,20,11,21"

\* What client.post returns: the status and the JSON document of the answer.
StacResponse(status, document) ==
    [status_code |-> status, json |-> [document |-> document, status |-> status]]
StacResponses ==
    {StacResponse(200, "FeatureCollection"), StacResponse(200, "empty FeatureCollection"),
     StacResponse(400, "error document"), StacResponse(500, "error document"),
     StacResponse(503, "error document")}
SearchOutcomes == StacResponses \cup {[transport |-> "error"]}

\* Mutant of SearchResult: the body is returned whatever the status.
SearchResultAnyStatus(response) ==
    [status |-> 200, kind |-> "json", content |-> response.json]

\* search_images lines 217-224
SearchResult(response) ==
    IF response.status_code # 200
    THEN [status |-> 500, kind |-> "json",
          content |-> [error |-> "Error searching STAC API"]]
    ELSE [status |-> 200, kind |-> "json", content |-> response.json]

\* search_images lines 188-216, up to the await of client.post.  A bbox that
\* does not unpack into four floats raises ValueError at line 201.
SearchImages(s, bbox) ==
    /\ search[s].pc = "idle"
    /\ search' = [search EXCEPT ![s] =
                    IF WellFormed(bbox)
                    THEN [@ EXCEPT !.pc = "post", !.bbox = bbox]
                    ELSE [@ EXCEPT !.pc = "done", !.bbox = bbox,
                             !.response = [status |-> 500, kind |-> "raw",
                                           content |-> [exc |-> "ValueError"]]]]
    /\ UNCHANGED <<tileVars, progressVars, rasterVars>>

\* search_images lines 215-224: client.post returns or raises.
SearchAnswer(s, outcome) ==
    /\ search[s].pc = "post"
    /\ search' = [search EXCEPT ![s] =
                    IF outcome \in StacResponses
                    THEN [@ EXCEPT !.pc = "done", !.answer = outcome,
                             !.response = SearchResult(outcome)]
                    ELSE [@ EXCEPT !.pc = "done",
                             !.response = [status |-> 500, kind |-> "raw",
                                           content |-> [exc |-> "httpx.TransportError"]]]]
    /\ UNCHANGED <<tileVars, progressVars, rasterVars>>

SearchInit == search = [s \in Searches |-> IdleSearch]

\* ----------------------------------------------------------- apply_colormap
\* A float: a ratio of integers, or one of IEEE's NaN and Inf.
Float(num, den) == [kind |-> "finite", num |-> num, den |-> den]
NaN == [kind |-> "nan", num |-> 0, den |-> 1]
Inf == [kind |-> "inf", num |-> 1, den |-> 1]

\* A cell of a numpy masked array: the mask bit and the data under it.
Cell(mask, data) == [mask |-> mask, data |-> data]
\* np.ma.masked, the value of min() and max() when every cell is masked
MaskedScalar == Cell(TRUE, NaN)

\* cached_generate_tile lines 284-285, 293-294: np.ma.masked_invalid(result).
\* The finite cells are valid; NaN and Inf stay in the data, under the mask.
Cells ==
    {Cell(FALSE, Float(v, 1)) : v \in 0..MaxValue} \cup {Cell(TRUE, NaN), Cell(TRUE, Inf)}
Rasters == UNION {[1..n -> Cells] : n \in 1..MaxPixels}

Valid(a) == {i \in DOMAIN a : ~a[i].mask}
\* result.min(), result.max(): over the cells that are not masked
MaMin(a) ==
    IF Valid(a) = {} THEN MaskedScalar
    ELSE Cell(FALSE, Float(CHOOSE v \in {a[i].data.num : i \in Valid(a)} :
                              \A i \in Valid(a) : v <= a[i].data.num, 1))
MaMax(a) ==
    IF Valid(a) = {} THEN MaskedScalar
    ELSE Cell(FALSE, Float(CHOOSE v \in {a[i].data.num : i \in Valid(a)} :
                              \A i \in Valid(a) : v >= a[i].data.num, 1))

\* numpy.ma subtract: the masks are or-ed, and a masked cell keeps its data.
MaSubtract(a, b) ==
    IF a.mask \/ b.mask THEN Cell(TRUE, a.data)
    ELSE Cell(FALSE, Float(a.data.num - b.data.num, 1))

\* Mutant of MaTrueDivide: IEEE division, no domain.
TrueDivide(a, b) ==
    IF a.mask \/ b.mask THEN Cell(TRUE, a.data)
    ELSE IF b.data.num = 0
         THEN Cell(FALSE, IF a.data.num = 0 THEN NaN ELSE Inf)
         ELSE Cell(FALSE, Float(a.data.num, b.data.num))

\* numpy.ma true_divide, the `/` of line 362: a domained operation.  A cell
\* whose divisor is zero is masked and keeps the data of the dividend.
MaTrueDivide(a, b) ==
    IF a.mask \/ b.mask \/ b.data.num = 0 THEN Cell(TRUE, a.data)
    ELSE Cell(FALSE, Float(a.data.num, b.data.num))

\* apply_colormap line 362
Normalize(a) ==
    [i \in DOMAIN a |->
        MaTrueDivide(MaSubtract(a[i], MaMin(a)), MaSubtract(MaMax(a), MaMin(a)))]

\* The lookup table of a matplotlib colormap: LutSize colours of the ramp and
\* the entries for under, over and bad.
IUnder == LutSize
IOver == LutSize + 1
IBad == LutSize + 2

\* Colormap.__call__ on a float array: scale by N, the value 1.0 to N - 1,
\* clip, cast to int.  Masked cells, or NaN cells when nothing is masked, take
\* the bad entry.  The cast of a NaN that is not masked to int is undefined:
\* the platform gives the least integer (under) or zero.
LutIndices(x, anyMasked) ==
    IF x.mask \/ (~anyMasked /\ x.data.kind = "nan") THEN {IBad}
    ELSE IF x.data.kind = "nan" THEN {IUnder, 0}
    ELSE IF x.data.kind = "inf" THEN {IOver}
    ELSE LET scaled == (x.data.num * LutSize) \div x.data.den
         IN  IF x.data.num < 0 THEN {IUnder}
             ELSE IF scaled = LutSize THEN {LutSize - 1}
             ELSE IF scaled > LutSize THEN {IOver}
             ELSE {scaled}

\* apply_colormap lines 364-365: the RGB of a lookup-table entry as uint8.
\* The bad colour is (0, 0, 0, 0): without its alpha it is black.
Colour(index) ==
    IF index = IBad THEN [rgb |-> "black", at |-> 0]
    ELSE IF index = IUnder THEN [rgb |-> "RdYlGn", at |-> 0]
    ELSE IF index = IOver THEN [rgb |-> "RdYlGn", at |-> LutSize - 1]
    ELSE [rgb |-> "RdYlGn", at |-> index]
Colours == {Colour(i) : i \in 0..IBad}

\* The images the lookup can give for the first n cells of x.
RECURSIVE Lookups(_, _)
Lookups(x, n) ==
    IF n = 0 THEN {<<>>}
    ELSE LET anyMasked == \E i \in DOMAIN x : x[i].mask
         IN  {Append(head, Colour(index)) :
                 head \in Lookups(x, n - 1), index \in LutIndices(x[n], anyMasked)}

\* apply_colormap lines 361-366
ApplyColormap ==
    /\ raster # <<>>
    /\ image = <<>>
    /\ normalized' = Normalize(raster)
    /\ image' \in Lookups(Normalize(raster), Len(raster))
    /\ UNCHANGED <<raster, tileVars, progressVars, searchVars>>

\* No call of apply_colormap is under way.
RasterIdle == raster = <<>> /\ normalized = <<>> /\ image = <<>>
\* The argument of a call of apply_colormap.
RasterInit == raster \in Rasters /\ normalized = <<>> /\ image = <<>>

Init == TileInit /\ ProgressInit /\ SearchInit /\ RasterIdle

Next ==
    \/ \E r \in Requests, a \in TileRequests : GetTile(r, a)
    \/ \E r \in Requests, answer \in CatalogAnswers : CatalogAnswer(r, answer)
    \/ \E r \in Requests, i \in {1, 2}, ok \in BOOLEAN : FetchDone(r, i, ok)
    \/ Tick

Spec == Init /\ [][Next]_vars

\* Requests for one tile, one more of them: the races on one cache key.
RaceRequests == {Args(1, 12, "visual", None, DefaultFormula)}

RaceNext ==
    \/ \E r \in Slots, a \in RaceRequests : GetTile(r, a)
    \/ \E r \in Slots, answer \in CatalogAnswers : CatalogAnswer(r, answer)
    \/ \E r \in Slots, i \in {1, 2}, ok \in BOOLEAN : FetchDone(r, i, ok)
    \/ Tick

ProgressNext ==
    \/ \E c \in Conns : Connect(c)
    \/ \E c \in Conns : ClientClose(c)
    \/ \E c \in Conns : Disconnected(c)
    \/ \E j \in Jobs, dir \in Dirs : ComputeAoi(j, dir)
    \/ \E j \in Jobs, computeOk \in BOOLEAN : RunComputation(j, computeOk)
    \/ \E j \in Jobs, computeOk \in BOOLEAN : SendDone(j, computeOk)

ProgressSpec == Init /\ [][ProgressNext]_vars

RaceSpec == Init /\ [][RaceNext]_vars

\* The requests that differ in one component of the cache key.  The catalog
\* answers them with a scene.
KeyNext ==
    \/ \E r \in Requests, a \in KeyRequests : GetTile(r, a)
    \/ \E r \in Requests, answer \in Scenes : CatalogAnswer(r, answer)
    \/ \E r \in Requests, i \in {1, 2}, ok \in BOOLEAN : FetchDone(r, i, ok)
    \/ Tick

KeySpec == Init /\ [][KeyNext]_vars

SearchNext ==
    \/ \E s \in Searches, bbox \in BBoxes : SearchImages(s, bbox)
    \/ \E s \in Searches, outcome \in SearchOutcomes : SearchAnswer(s, outcome)

SearchSpec == Init /\ [][SearchNext]_vars

ColormapInit == TileInit /\ ProgressInit /\ SearchInit /\ RasterInit
ColormapNext == ApplyColormap

ColormapSpec == ColormapInit /\ [][ColormapNext]_vars

\* ------------------------------------------------------------------ claims
Started(r) == req[r].pc # "idle"
Done(r) == req[r].pc = "done"

\* C1: a tile request whose zoom is outside [10, 16] is answered with status
\* 400, and it reaches neither the cache lookup, nor the catalog, nor
\* fetch_tile.
C1_BadZoomRejectedBeforeWork ==
    \A r \in Slots :
        Started(r) /\ (req[r].asked.z < 10 \/ req[r].asked.z > 16) =>
            /\ Done(r)
            /\ req[r].response.status = 400
            /\ req[r].response.kind = "json"
            /\ req[r].catalogCalls = 0
            /\ req[r].fetchCalls = 0
            /\ ~req[r].hit

C1_Witness ==
    \E r, q \in Slots :
        /\ Done(r) /\ req[r].asked.z = 17 /\ req[r].response.status = 400
        /\ Done(q) /\ req[q].asked.z = 9 /\ req[q].response.status = 400

\* C2: of two tile calls with the same cache key, the second one starting
\* after the first has succeeded and within the TTL of the entry the first
\* returned, the second returns the bytes of the first and calls neither the
\* catalog nor fetch_tile.
Sequential(a, b) ==
    /\ a # b /\ Done(a) /\ Done(b)
    /\ req[a].doneSeq < req[b].startSeq
    /\ req[a].response.status = 200
    /\ req[b].args # NoArgs
    /\ CacheKey(req[a].args) = CacheKey(req[b].args)
    /\ (req[b].at - req[a].entryAt) * TickSeconds < 3600

C2_SecondCallSameBytesNoWork ==
    \A a, b \in Slots :
        Sequential(a, b) =>
            /\ req[b].response.bytes = req[a].response.bytes
            /\ req[b].catalogCalls = 0
            /\ req[b].fetchCalls = 0

\* The part of C2 that the code keeps: the second call is served from the
\* cache, with no call of the catalog or of fetch_tile.
C2_SecondCallNoWork ==
    \A a, b \in Slots :
        Sequential(a, b) =>
            req[b].hit /\ req[b].catalogCalls = 0 /\ req[b].fetchCalls = 0

\* C3: when a send fails during a broadcast, the failing connection is out of
\* the registry at the end of the broadcast, and every other connection that
\* was registered throughout has been sent the message.
C3_SendFailureIsolated ==
    \A b \in Broadcasts :
        LET j == b[1]
            p == b[2]
        IN  job[j].ended[p] = "failed" =>
                /\ \A i \in 1..Len(connections) : connections[i] # job[j].failedAt
                /\ \A c \in job[j].stable[p] \ {job[j].failedAt} :
                       Len(delivered[c][b]) = 1

\* C4: a broadcast sends the message exactly once to every connection that
\* stayed registered from its start to its end (stated for the broadcasts in
\* which no send failed).
C4_ExactlyOnceToStableConnections ==
    \A b \in Broadcasts :
        job[b[1]].ended[b[2]] = "ok" =>
            \A c \in job[b[1]].stable[b[2]] : Len(delivered[c][b]) = 1

\* C5: the events of a job come in the order response, "Starting
\* processing..." broadcast, call of the compute function, its return,
\* completed broadcast; the completed message is sent only after the compute
\* function has returned, and it names the job's output directory.
Index(log, e) ==
    IF \E i \in 1..Len(log) : log[i] = e
    THEN CHOOSE i \in 1..Len(log) : log[i] = e
    ELSE 0
Precedes(log, e, f) == Index(log, f) # 0 => 0 < Index(log, e) /\ Index(log, e) < Index(log, f)

C5_JobEventOrder ==
    \A j \in Jobs :
        LET log == job[j].log
        IN  /\ Precedes(log, "response", "starting")
            /\ Precedes(log, "starting", "compute called")
            /\ Precedes(log, "compute called", "compute returned")
            /\ Precedes(log, "compute returned", "completed")
            /\ job[j].pc \in {"completing", "done"} => Index(log, "completed") # 0
            /\ \A c \in Conns :
                 /\ delivered[c][<<j, "starting">>] # <<>> => Index(log, "response") # 0
                 /\ \A i \in 1..Len(delivered[c][<<j, "completing">>]) :
                      /\ Index(log, "compute returned") # 0
                      /\ delivered[c][<<j, "completing">>][i]
                           = <<"Processing completed. Results saved in", job[j].dir>>

C5_Witness ==
    \E j, k \in Jobs, c \in Conns :
        /\ j # k /\ job[j].dir # job[k].dir
        /\ job[j].pc = "done" /\ job[k].pc = "done"
        /\ delivered[c][<<j, "starting">>] # <<>>
        /\ delivered[c][<<j, "completing">>] # <<>>
        /\ delivered[c][<<k, "completing">>] # <<>>

\* C6: a job whose compute function failed has broadcast a "failed: <reason>"
\* message.
C6_FailureIsBroadcast ==
    \A j \in Jobs :
        Index(job[j].log, "compute raised") # 0 =>
            \/ Index(job[j].log, "failed") # 0
            \/ \E c \in Conns, p \in Phases, i \in 1..2 :
                 i <= Len(delivered[c][<<j, p>>]) /\ delivered[c][<<j, p>>][i][1] = "failed"

\* C7: when the catalog answers with success and no scene, the tile endpoint
\* answers with status 404 and a JSON error, and fetch_tile is not called.
C7_NoSceneIs404 ==
    \A r \in Slots :
        req[r].answer = "no features" =>
            /\ Done(r)
            /\ req[r].response.status = 404
            /\ req[r].response.kind = "json"
            /\ req[r].response.error # ""
            /\ req[r].fetchCalls = 0

C7_Witness ==
    \E r \in Slots : req[r].answer = "no features" /\ req[r].catalogCalls = 1 /\ Done(r)

\* C8: when the catalog answers with a non-success status, the tile endpoint
\* answers with status 500 and a JSON error, a status other than the 404 of a
\* search without scenes.
C8_CatalogFailureIs500 ==
    \A r \in Slots :
        req[r].answer = "non-200" =>
            /\ req[r].response.status = 500
            /\ req[r].response.kind = "json"
            /\ req[r].response.status # Handled(NoFeaturesError).status

\* C9: every error of a stage of the tile pipeline is answered by get_tile
\* with a JSON error response; no exception leaves get_tile.
C9_NoRawException ==
    \A r \in Slots : Done(r) => req[r].response.kind \in {"png", "json"}

\* C10: only a formula of the restricted grammar over + - * / ( ) band1 band2
\* and numerals is ever evaluated.
C10_OnlyGrammarEvaluated == \A f \in evaluated : InGrammar(f)

\* C11: the dispatch on the bands.  With two bands the formula is evaluated
\* over both and the result colorized; with one band of one channel the
\* formula is evaluated with band1 alone and the result colorized; with one
\* band of two or more channels no formula is evaluated and the channels are
\* the image.
Decoded(r) ==
    /\ Done(r) /\ req[r].tiles # <<>>
    /\ \A i \in 1..Len(req[r].tiles) : req[r].tiles[i] # NoTile
    /\ req[r].response # Handled(FetchError)
Supplied(band) == band # None /\ band # ""

C11_BandDispatch ==
    \A r \in Slots :
        Decoded(r) =>
            LET a == req[r].args
                t == req[r].tiles
                resp == req[r].response
                evaluates == /\ req[r].evalCalls = 1
                             /\ resp.kind = "png" =>
                                  /\ resp.bytes.mode = "colormap"
                                  /\ resp.bytes.formula = a.formula
                                  /\ a.formula \in evaluated
            IN  /\ Supplied(a.band2) =>
                     /\ evaluates
                     /\ resp.kind = "png" =>
                          resp.bytes.band1 = a.band1 /\ resp.bytes.band2 = a.band2
                /\ ~Supplied(a.band2) /\ t[1].channels = 1 =>
                     /\ evaluates
                     /\ resp.kind = "png" =>
                          resp.bytes.band1 = a.band1 /\ resp.bytes.band2 = None
                /\ ~Supplied(a.band2) /\ t[1].channels >= 2 =>
                     /\ req[r].evalCalls = 0
                     /\ resp.kind = "png"
                     /\ resp.bytes.mode = "passthrough"
                     /\ resp.bytes.band1 = a.band1

C11_Witness ==
    \E r, q \in Slots :
        /\ Decoded(r) /\ req[r].args.band1 = "visual"
        /\ req[r].response.bytes.mode = "passthrough"
        /\ Decoded(q) /\ ~Supplied(req[q].args.band2) /\ req[q].tiles[1].channels = 1
        /\ req[q].response.bytes.mode = "colormap"

C11_WitnessTwoBands ==
    \E r \in Slots :
        /\ Decoded(r) /\ Supplied(req[r].args.band2)
        /\ req[r].response.bytes.mode = "colormap"

\* C12: a raster whose valid pixels are all equal is colorized without a NaN
\* or an Inf: no division by zero reaches a pixel, every pixel of the image is
\* a colour of the lookup table, and the image is of one colour.
Applied == image # <<>>
ConstantRaster ==
    \A i, j \in Valid(raster) : raster[i].data = raster[j].data
C12_ConstantRasterOneColour ==
    Applied /\ ConstantRaster =>
        /\ \A i \in DOMAIN normalized :
               ~normalized[i].mask => normalized[i].data.kind = "finite"
        /\ \A i \in DOMAIN image : image[i] \in Colours
        /\ \A i, j \in DOMAIN image : image[i] = image[j]

C12_Witness ==
    /\ Applied /\ ConstantRaster
    /\ Cardinality(Valid(raster)) >= 2
    /\ \E i \in DOMAIN raster : raster[i].mask
    /\ \A i \in DOMAIN image : image[i] = Colour(IBad)

\* C13: /search answers a catalog success (status 200, the test of line 217)
\* with the catalog's document, and every other catalog status with status
\* 500 and the {"error": ...} envelope; a status 200 of /search never carries
\* the document of a catalog failure.
Answered(s) == search[s].pc = "done" /\ search[s].answer # NoAnswer
C13_SearchRawOrErrorEnvelope ==
    \A s \in Searches :
        Answered(s) =>
            LET answer == search[s].answer
                response == search[s].response
            IN  /\ answer.status_code = 200 =>
                     response = [status |-> 200, kind |-> "json", content |-> answer.json]
                /\ answer.status_code # 200 =>
                     /\ response.status = 500
                     /\ response.content = [error |-> "Error searching STAC API"]
                /\ response.status = 200 => answer.json.status = 200

C13_Witness ==
    \E s, t \in Searches :
        /\ Answered(s) /\ search[s].answer.status_code = 200
        /\ search[s].response.content.document = "FeatureCollection"
        /\ Answered(t) /\ search[t].answer.status_code = 503
        /\ search[t].response.status = 500

\* C14: a two-band request starts both decodes together and evaluates the
\* formula only when both have completed; whichever completes first, band1 is
\* bound to the tile of the first band and band2 to the tile of the second.
TwoBand(r) == req[r].args # NoArgs /\ Supplied(req[r].args.band2)
C14_GatherJoinsInTaskOrder ==
    \A r \in Slots :
        TwoBand(r) /\ req[r].tiles # <<>> =>
            LET rec == req[r]
                a == rec.args
            IN  /\ rec.fetchCalls = 2
                /\ rec.pc = "fetch" =>
                     rec.evalCalls = 0 /\ rec.pending \cup Range(rec.order) = {1, 2}
                /\ rec.evalCalls = 1 => Range(rec.order) = {1, 2}
                /\ \A i \in {1, 2} :
                     rec.tiles[i] # NoTile =>
                         rec.tiles[i].band = (IF i = 1 THEN a.band1 ELSE a.band2)
                /\ rec.response.kind = "png" =>
                     /\ rec.response.bytes.band1 = a.band1
                     /\ rec.response.bytes.band2 = a.band2

C14_Witness ==
    \E r \in Slots :
        /\ TwoBand(r) /\ Done(r)
        /\ req[r].order = <<2, 1>>
        /\ req[r].response.kind = "png"
        /\ req[r].response.bytes.band1 = req[r].args.band1

\* C15: the cache does not join concurrent calls of one key: whenever two
\* requests with the same key are under way together, each of them has missed
\* and has called the catalog itself, and goes on to its own fetch_tile.
SameKeyInFlight(r, q) ==
    r # q /\ r \in InFlight /\ q \in InFlight /\ req[r].args = req[q].args
C15_ConcurrentMissesBothCompute ==
    \A r, q \in Slots :
        SameKeyInFlight(r, q) =>
            /\ ~req[r].hit
            /\ req[r].catalogCalls = 1
            /\ req[r].pc \in {"search", "fetch"}
            /\ req[r].pc = "fetch" => req[r].fetchCalls >= 1

C15_Witness ==
    \E r, q \in Slots :
        /\ SameKeyInFlight(r, q)
        /\ req[r].pc = "fetch" /\ req[q].pc = "fetch"
        /\ req[r].fetchCalls = 1 /\ req[q].fetchCalls = 1

\* C16: no entry is in the cache, and none is served, 3600 s or more after its
\* insertion; the first call of a key after the expiry of its entry misses,
\* calls the catalog, and when its pipeline succeeds stores its result and
\* returns it.
FirstAfterExpiry(a, b) ==
    /\ a # b /\ Done(a) /\ Done(b)
    /\ req[a].stored
    /\ req[b].args = req[a].args
    /\ (req[b].at - req[a].entryAt) * TickSeconds >= TTL
    /\ \A q \in Slots \ {a, b} : req[q].args # req[a].args
C17_HitOnlyForSameKey ==
    /\ \A k \in Keys :
           cache[k] # NoEntry =>
               /\ CacheKey(cache[k].args) = k
               /\ cache[k].feature = cache[k].bytes.scene
    /\ \A r \in Slots :
           Done(r) /\ req[r].response.kind = "png" =>
               /\ req[r].servedFor = req[r].args
               /\ req[r].response.feature = req[r].response.bytes.scene

C17_Witness ==
    \E r, q \in Slots :
        /\ Done(r) /\ Done(q)
        /\ req[r].stored /\ req[q].stored
        /\ req[r].doneSeq < req[q].startSeq
        /\ req[q].asked = [req[r].asked EXCEPT !.cloud_cover = 10]
        /\ req[q].asked # req[r].asked
        /\ (req[q].at - req[r].entryAt) * TickSeconds < TTL
        /\ cache[CacheKey(req[r].args)] # NoEntry
        /\ req[r].feature # req[q].feature

\* C18: the registry holds exactly the connections that were accepted and
\* whose disconnect the handler has not yet observed, each once; and after a
\* connection's disconnect has been handled no broadcast sends to it: nothing
\* more is delivered to it and no send to it fails.
Registered == {c \in Conns : ws[c] \in {"open", "closed"}}
RegistryExact ==
    /\ Range(connections) = Registered
    /\ \A i, k \in 1..Len(connections) : connections[i] = connections[k] => i = k
NoSendAfterRemoval ==
    \A c \in Conns :
        ws[c] = "removed" =>
            /\ delivered'[c] = delivered[c]
            /\ \A j \in Jobs : job'[j].failedAt = c => job[j].failedAt = c
C18_RegistryExactNoSendAfterRemoval ==
    []RegistryExact /\ [][NoSendAfterRemoval]_vars

C18_Witness ==
    \E c, d \in Conns, j \in Jobs :
        /\ ws[c] = "removed" /\ ws[d] = "open"
        /\ connections = <<d>>
        /\ job[j].pc = "done"
        /\ delivered[c][<<j, "starting">>] # <<>>
        /\ delivered[c][<<j, "completing">>] = <<>>
        /\ delivered[d][<<j, "completing">>] # <<>>

\* C19: every job that has come to its end has called the compute function
\* exactly once, also when a send of its "Starting processing..." broadcast
\* failed.
Ended(j) == job[j].pc \in {"done", "crashed"}
Calls(log) == Cardinality({i \in 1..Len(log) : log[i] = "compute called"})
C19_ComputeCalledExactlyOnce ==
    \A j \in Jobs : Ended(j) => Calls(job[j].log) = 1

\* C20: a run of cached_generate_tile that raised stores nothing: every entry
\* holds the image of a run that returned, no failed request has stored, a
\* hit never replays an error, and the next call of the key after a failed
\* run calls the catalog again.
Failed(r) == Done(r) /\ req[r].response.status # 200 /\ req[r].catalogCalls = 1
NextAfterFailure(a, b) ==
    /\ a # b /\ Failed(a) /\ Started(b)
    /\ req[b].args = req[a].args
    /\ req[a].doneSeq < req[b].startSeq
    /\ \A q \in Slots \ {a, b} : req[q].args # req[a].args
C20_FailedRunNotCached ==
    /\ \A k \in Keys :
           cache[k] # NoEntry =>
               /\ cache[k].bytes # NoBytes
               /\ \E r \in Slots :
                      /\ req[r].stored /\ CacheKey(req[r].args) = k
                      /\ req[r].response = PngResponse(cache[k].bytes, cache[k].feature)
    /\ \A r \in Slots : Failed(r) => ~req[r].stored /\ ~req[r].hit
    /\ \A r \in Slots :
           Done(r) /\ req[r].hit =>
               req[r].response.status = 200 /\ req[r].response.bytes # NoBytes
    /\ \A a, b \in Slots :
           NextAfterFailure(a, b) => ~req[b].hit /\ req[b].catalogCalls = 1

C20_Witness ==
    \E a, b \in Slots :
        /\ NextAfterFailure(a, b)
        /\ req[a].response = Handled(FetchError)
        /\ req[b].stored
        /\ cache[CacheKey(req[b].args)] # NoEntry
====
